---- MODULE Spec2Model ----
(***************************************************************************)
(* Model of the rRES resource container reader of src/src/rres.h:          *)
(* LoadResource, LoadResourceById, UnloadResource and DecompressData,      *)
(* run against files held as byte sequences.                               *)
(***************************************************************************)
EXTENDS Integers, Sequences, FiniteSets, TLC

\* ------------------------------------------------------------------------
\* Bounds of the model
\* ------------------------------------------------------------------------
MaxEntries == 2

\* ------------------------------------------------------------------------
\* Program constants
\* ------------------------------------------------------------------------
RRES_COMP_NONE == 0
RRES_COMP_DEFLATE == 1
RRES_COMP_LZ4 == 2
SizeofFileHeader == 8
SizeofInfoHeader == 28
TINFL_FAILED == -1
NULL == 0

RRES_MAGIC == <<114, 82, 69, 83>>

\* ------------------------------------------------------------------------
\* Little-endian integers, as fread() of a struct lays them out on the
\* platforms the file format is defined for
\* ------------------------------------------------------------------------
U16(n) == <<n % 256, (n \div 256) % 256>>

U32(n) == <<n % 256, (n \div 256) % 256, (n \div 65536) % 256, (n \div 16777216) % 256>>

GetU8(b, off) == b[off + 1]

GetU16(b, off) == b[off + 1] + 256 * b[off + 2]

GetU32(b, off) == b[off + 1] + 256 * b[off + 2] + 65536 * b[off + 3] + 16777216 * b[off + 4]

\* Fields of an RRESInfoHeader held as its 28 bytes
IH_id(h) == GetU16(h, 0)

IH_dataType_wrongOffset(h) == GetU8(h, 3)

IH_dataType(h) == GetU8(h, 2)

IH_compType(h) == GetU8(h, 3)

IH_dataSize(h) == GetU32(h, 4)

IH_uncompSize(h) == GetU32(h, 8)

IH_param1(h) == GetU32(h, 12)

IH_param2(h) == GetU32(h, 16)

IH_param3(h) == GetU32(h, 20)

IH_param4(h) == GetU32(h, 24)

\* Fields of an RRESFileHeader held as its 8 bytes
FH_id(h) == SubSeq(h, 1, 4)

FH_count(h) == GetU16(h, 6)

\* ------------------------------------------------------------------------
\* Files: the entries a file was packaged from, and its bytes
\* ------------------------------------------------------------------------
Entry(id, dataType, compType, uncompSize, p1, p2, p3, p4, payload) ==
    [id |-> id, dataType |-> dataType, compType |-> compType,
     dataSize |-> Len(payload), uncompSize |-> uncompSize,
     param1 |-> p1, param2 |-> p2, param3 |-> p3, param4 |-> p4,
     payload |-> payload]

InfoBytes(e) ==
    U16(e.id) \o <<e.dataType, e.compType>> \o U32(e.dataSize) \o U32(e.uncompSize)
      \o U32(e.param1) \o U32(e.param2) \o U32(e.param3) \o U32(e.param4)

EntryBytes(e) == InfoBytes(e) \o e.payload

RECURSIVE BodyBytes(_)
BodyBytes(es) ==
    IF es = <<>> THEN <<>> ELSE EntryBytes(Head(es)) \o BodyBytes(Tail(es))

FileImage(magic, count, es) == magic \o U16(1) \o U16(count) \o BodyBytes(es)

\* The entries files are packaged from: identifiers 1 and 258, each with
\* several payloads, compressed or not
EntrySet ==
    { Entry(1, 1, RRES_COMP_NONE, 1, 1, 2, 3, 4, <<65>>),
      Entry(1, 4, RRES_COMP_NONE, 2, 300, 0, 70000, 5, <<66, 66>>),
      Entry(258, 0, RRES_COMP_NONE, 0, 0, 0, 0, 0, <<>>),
      Entry(258, 2, RRES_COMP_NONE, 2, 6, 6, 6, 6, <<67, 68>>),
      Entry(258, 2, RRES_COMP_DEFLATE, 2, 8, 8, 8, 8, <<2, 7>>),
      Entry(1, 2, RRES_COMP_DEFLATE, 2, 9, 9, 9, 9, <<9>>),
      Entry(1, 3, RRES_COMP_DEFLATE, 0, 5, 5, 5, 5, <<0, 7>>),
      Entry(258, 3, RRES_COMP_LZ4, 5, 7, 7, 7, 7, <<66, 67>>) }

EntryLists == UNION { [1..n -> EntrySet] : n \in 0..MaxEntries }

Min(a, b) == IF a < b THEN a ELSE b

Max(a, b) == IF a < b THEN b ELSE a

\* The files the reader is run on: as packaged, with one magic byte or all of
\* them changed, with a count that is not the number of entries, or cut short
Defects == {"none", "magic-rXXX", "magic-XXXX", "magic-rres", "count-0", "count-5",
            "header-only", "short-header", "cut-last"}

Damaged(es, d) ==
    LET good == FileImage(RRES_MAGIC, Len(es), es) IN
    CASE d = "none"         -> good
      [] d = "magic-rXXX"   -> FileImage(<<114, 88, 88, 88>>, Len(es), es)
      [] d = "magic-XXXX"   -> FileImage(<<88, 88, 88, 88>>, Len(es), es)
      [] d = "magic-rres"   -> FileImage(<<114, 114, 101, 115>>, Len(es), es)
      [] d = "count-0"      -> FileImage(RRES_MAGIC, 0, es)
      [] d = "count-5"      -> FileImage(RRES_MAGIC, 5, es)
      [] d = "header-only"  -> SubSeq(FileImage(RRES_MAGIC, 5, es), 1, SizeofFileHeader)
      [] d = "short-header" -> SubSeq(good, 1, 6)
      [] d = "cut-last"     -> SubSeq(good, 1, Max(SizeofFileHeader, Len(good) - 1))

\* ------------------------------------------------------------------------
\* C library and external decoder
\* ------------------------------------------------------------------------
\* fread(buf, n, 1, f) at position pos: the bytes the file still has are
\* stored at the start of buf, the rest of buf keeps what it held
FreadAvail(f, pos, n) == Max(0, Min(n, Len(f) - pos))

Fread(buf, f, pos, n) ==
    SubSeq(f, pos + 1, pos + FreadAvail(f, pos, n)) \o SubSeq(buf, FreadAvail(f, pos, n) + 1, n)

\* fseek(f, off, SEEK_CUR): succeeds past the end of the file as well
Fseek_noSkip(pos, off) == pos

Fseek(pos, off) == pos + off

\* malloc(n): a new block of n bytes of unspecified content
Malloc(h, n, fill) == Append(h, [bytes |-> [k \in 1..n |-> fill], frees |-> 0])

\* free(p): free(NULL) does nothing
Free(h, p) == IF p = NULL THEN h ELSE [h EXCEPT ![p].frees = @ + 1]

BytesAt(h, p) == IF p = NULL THEN <<>> ELSE h[p].bytes

\* Stand-in for the external decoder: a stream is a run <<length, byte>>,
\* anything else is rejected
Inflate(in) ==
    IF Len(in) = 2 THEN [ok |-> TRUE, bytes |-> [k \in 1..in[1] |-> in[2]]]
    ELSE [ok |-> FALSE, bytes |-> <<>>]

\* tinfl_decompress_mem_to_mem(out, cap, in, len, flags): bytes produced, or
\* TINFL_FAILED when the stream is rejected or does not fit in cap bytes
TinflMemToMem(cap, in) ==
    IF Inflate(in).ok /\ Len(Inflate(in).bytes) <= cap THEN Len(Inflate(in).bytes)
    ELSE TINFL_FAILED

\* ------------------------------------------------------------------------
\* State
\* ------------------------------------------------------------------------
VARIABLES
    file,        \* bytes of the file at the path given to the call
    entries,     \* the entries the file was packaged from
    canOpen,     \* whether fopen() of the path succeeds
    pc,          \* position of the call
    api,         \* "LoadResource" or "LoadResourceById"
    rresId,      \* argument of LoadResourceById
    rresFile,    \* FILE *rresFile: "NULL", "open" or "closed"
    fpos,        \* position of rresFile
    fileHeader,  \* RRESFileHeader, as its 8 bytes
    infoHeader,  \* RRESInfoHeader, as its 28 bytes
    i,           \* loop counter of LoadResourceById
    rres,        \* RRESData being built and returned
    data,        \* void *data of the block being read
    heap,        \* blocks handed out by RRES_MALLOC, in allocation order
    log,         \* TraceLog() messages, in order
    opens,       \* number of fopen() that returned a handle
    closes,      \* number of fclose()
    headersRead, \* number of fread() of an info header
    idCompares,  \* number of evaluations of infoHeader.id == rresId
    shortRead    \* some fread() got fewer bytes than asked for

vars == <<file, entries, canOpen, pc, api, rresId, rresFile, fpos, fileHeader, infoHeader,
          i, rres, data, heap, log, opens, closes, headersRead, idCompares, shortRead>>

env == <<file, entries, canOpen>>

ZeroRes == [type |-> 0, param1 |-> 0, param2 |-> 0, param3 |-> 0, param4 |-> 0, data |-> NULL]

\* What the locals fileHeader and infoHeader hold before anything is read
\* into them: zeroes, or what an earlier call left on the stack
StackImages ==
    { [fh |-> [k \in 1..SizeofFileHeader |-> 0], ih |-> [k \in 1..SizeofInfoHeader |-> 0]],
      [fh |-> RRES_MAGIC \o U16(1) \o U16(2),
       ih |-> InfoBytes(Entry(1, 7, RRES_COMP_NONE, 1, 11, 12, 13, 14, <<77>>))] }

\* Content of freshly allocated memory
FillBytes == {0, 170}

RequestedIds == {1, 258, 3, 65537}

Init ==
    /\ \E es \in EntryLists, d \in Defects :
         /\ entries = es
         /\ file = Damaged(es, d)
    /\ canOpen \in BOOLEAN
    /\ pc = "idle"
    /\ api = "none"
    /\ rresId = 0
    /\ rresFile = "NULL"
    /\ fpos = 0
    /\ fileHeader = [k \in 1..SizeofFileHeader |-> 0]
    /\ infoHeader = [k \in 1..SizeofInfoHeader |-> 0]
    /\ i = 0
    /\ rres = ZeroRes
    /\ data = NULL
    /\ heap = <<>>
    /\ log = <<>>
    /\ opens = 0
    /\ closes = 0
    /\ headersRead = 0
    /\ idCompares = 0
    /\ shortRead = FALSE

\* ------------------------------------------------------------------------
\* Steps of LoadResource and LoadResourceById
\* ------------------------------------------------------------------------
\* RRESData rres = { 0 }; fopen(); warning when it fails
Call(name, id) ==
    /\ pc = "idle"
    /\ api' = name
    /\ rresId' = id
    /\ rres' = ZeroRes
    /\ \E st \in StackImages :
         /\ fileHeader' = st.fh
         /\ infoHeader' = st.ih
    /\ IF canOpen
       THEN /\ rresFile' = "open"
            /\ opens' = opens + 1
            /\ log' = log
            /\ pc' = "header"
       ELSE /\ rresFile' = "NULL"
            /\ opens' = opens
            /\ log' = Append(log, "could not be opened")
            /\ pc' = "return"
    /\ UNCHANGED <<env, fpos, i, data, heap, closes, headersRead, idCompares, shortRead>>

CallLoadResource == Call("LoadResource", 0)

CallLoadResourceById == \E id \in RequestedIds : Call("LoadResourceById", id)

\* The six fread() of id[0..3], version and count: consecutive bytes of the
\* file into consecutive bytes of fileHeader
ReadFileHeader ==
    /\ pc = "header"
    /\ fileHeader' = Fread(fileHeader, file, fpos, SizeofFileHeader)
    /\ fpos' = fpos + FreadAvail(file, fpos, SizeofFileHeader)
    /\ shortRead' = (shortRead \/ FreadAvail(file, fpos, SizeofFileHeader) < SizeofFileHeader)
    /\ pc' = "magic"
    /\ UNCHANGED <<env, api, rresId, rresFile, infoHeader, i, rres, data, heap, log,
                   opens, closes, headersRead, idCompares>>

\* The test of the "rRES" identifier
MagicRejected(id) ==
    (id[1] # RRES_MAGIC[1]) /\ (id[2] # RRES_MAGIC[2]) /\ (id[3] # RRES_MAGIC[3])
      /\ (id[4] # RRES_MAGIC[4])

PcAfterBadMagic_earlyReturn == "return"

PcAfterBadMagic == "close"

VerifyMagic ==
    /\ pc = "magic"
    /\ IF MagicRejected(FH_id(fileHeader))
       THEN /\ log' = Append(log, "not a valid raylib resource file")
            /\ pc' = PcAfterBadMagic
       ELSE /\ log' = log
            /\ pc' = IF api = "LoadResource" THEN "first" ELSE "loop"
    /\ i' = 0
    /\ UNCHANGED <<env, api, rresId, rresFile, fpos, fileHeader, infoHeader, rres, data, heap,
                   opens, closes, headersRead, idCompares, shortRead>>

\* Register data type and parameters
Register(r, h) ==
    [r EXCEPT !.type = IH_dataType(h), !.param1 = IH_param1(h), !.param2 = IH_param2(h),
              !.param3 = IH_param3(h), !.param4 = IH_param4(h)]

\* LoadResource: read first resource info and parameters
ReadFirstInfo ==
    /\ pc = "first"
    /\ infoHeader' = Fread(infoHeader, file, fpos, SizeofInfoHeader)
    /\ fpos' = fpos + FreadAvail(file, fpos, SizeofInfoHeader)
    /\ shortRead' = (shortRead \/ FreadAvail(file, fpos, SizeofInfoHeader) < SizeofInfoHeader)
    /\ headersRead' = headersRead + 1
    /\ rres' = Register(rres, infoHeader')
    /\ pc' = "data"
    /\ UNCHANGED <<env, api, rresId, rresFile, fileHeader, i, data, heap, log,
                   opens, closes, idCompares>>

IdMatches_truncated(id, wanted) == id = wanted % 65536

IdMatches(id, wanted) == id = wanted

\* LoadResourceById: one pass of the for loop up to the read of the data block
LoopStep ==
    /\ pc = "loop"
    /\ i < FH_count(fileHeader)
    /\ infoHeader' = Fread(infoHeader, file, fpos, SizeofInfoHeader)
    /\ shortRead' = (shortRead \/ FreadAvail(file, fpos, SizeofInfoHeader) < SizeofInfoHeader)
    /\ headersRead' = headersRead + 1
    /\ idCompares' = idCompares + 1
    /\ IF IdMatches(IH_id(infoHeader'), rresId)
       THEN /\ rres' = Register(rres, infoHeader')
            /\ fpos' = fpos + FreadAvail(file, fpos, SizeofInfoHeader)
            /\ i' = i
            /\ pc' = "data"
       ELSE /\ rres' = rres
            /\ fpos' = Fseek(fpos + FreadAvail(file, fpos, SizeofInfoHeader),
                             IH_dataSize(infoHeader'))
            /\ i' = i + 1
            /\ pc' = "loop"
    /\ UNCHANGED <<env, api, rresId, rresFile, fileHeader, data, heap, log, opens, closes>>

\* LoadResourceById: the loop is over
LoopExit ==
    /\ pc = "loop"
    /\ ~(i < FH_count(fileHeader))
    /\ log' = IF rres.data = NULL
              THEN Append(log, "Requested resource could not be found") ELSE log
    /\ pc' = "close"
    /\ UNCHANGED <<env, api, rresId, rresFile, fpos, fileHeader, infoHeader, i, rres, data,
                   heap, opens, closes, headersRead, idCompares, shortRead>>

\* Read resource data block: RRES_MALLOC(dataSize), fread(data, dataSize, 1)
ReadDataBlock ==
    /\ pc = "data"
    /\ \E fill \in FillBytes, nullOnZero \in BOOLEAN :
         LET n == IH_dataSize(infoHeader) IN
         IF n = 0 /\ nullOnZero
         THEN /\ heap' = heap
              /\ data' = NULL
         ELSE /\ heap' = [Malloc(heap, n, fill) EXCEPT
                            ![Len(heap) + 1].bytes = Fread(@, file, fpos, n)]
              /\ data' = Len(heap) + 1
    /\ fpos' = fpos + FreadAvail(file, fpos, IH_dataSize(infoHeader))
    /\ shortRead' = (shortRead \/ FreadAvail(file, fpos, IH_dataSize(infoHeader))
                                    < IH_dataSize(infoHeader))
    /\ pc' = "comp"
    /\ UNCHANGED <<env, api, rresId, rresFile, fileHeader, infoHeader, i, rres, log,
                   opens, closes, headersRead, idCompares>>

\* DecompressData(data, compSize, uncompSize): the heap and the log it leaves
\* and the pointer it returns
DecompressData(h, lg, in, uncompSize, fill, nullOnZero) ==
    IF uncompSize = 0 /\ nullOnZero
    THEN [heap |-> h, log |-> Append(lg, "Out of memory while decompressing data"),
          ret |-> NULL]
    ELSE LET uncompData == Len(h) + 1
             h1 == Malloc(h, uncompSize, fill)
             tempUncompSize == TinflMemToMem(uncompSize, in)
             h2 == IF tempUncompSize = TINFL_FAILED
                   THEN Free(h1, uncompData)
                   ELSE [h1 EXCEPT ![uncompData].bytes =
                            Inflate(in).bytes \o SubSeq(@, tempUncompSize + 1, uncompSize)]
             l1 == IF tempUncompSize = TINFL_FAILED
                   THEN Append(lg, "Data decompression failed") ELSE lg
             l2 == IF uncompSize # tempUncompSize
                   THEN l1 \o <<"Expected uncompressed size do not match",
                                "Expected uncompressed size", "Returned uncompressed size">>
                   ELSE l1
         IN [heap |-> h2, log |-> Append(l2, "Data decompressed successfully"),
             ret |-> uncompData]

PcAfterBlock == IF api = "LoadResource" THEN "close" ELSE "loop"

LoadedLog(lg, r) ==
    IF r.data # NULL THEN Append(lg, "Resource data loaded successfully") ELSE lg

\* compType == RRES_COMP_DEFLATE: decompress, keep the result, free the block
DecompressBlock ==
    /\ pc = "comp"
    /\ IH_compType(infoHeader) = RRES_COMP_DEFLATE
    /\ \E fill \in FillBytes, nullOnZero \in BOOLEAN :
         LET d == DecompressData(heap, log, BytesAt(heap, data), IH_uncompSize(infoHeader),
                                 fill, nullOnZero) IN
         /\ rres' = [rres EXCEPT !.data = d.ret]
         /\ heap' = Free(d.heap, data)
         /\ log' = LoadedLog(d.log, rres')
    /\ data' = NULL
    /\ i' = IF api = "LoadResource" THEN i ELSE i + 1
    /\ pc' = PcAfterBlock
    /\ UNCHANGED <<env, api, rresId, rresFile, fpos, fileHeader, infoHeader,
                   opens, closes, headersRead, idCompares, shortRead>>

\* any other compType: the block read from the file is the result
KeepBlock ==
    /\ pc = "comp"
    /\ IH_compType(infoHeader) # RRES_COMP_DEFLATE
    /\ rres' = [rres EXCEPT !.data = data]
    /\ log' = LoadedLog(log, rres')
    /\ data' = NULL
    /\ i' = IF api = "LoadResource" THEN i ELSE i + 1
    /\ pc' = PcAfterBlock
    /\ UNCHANGED <<env, api, rresId, rresFile, fpos, fileHeader, infoHeader, heap,
                   opens, closes, headersRead, idCompares, shortRead>>

\* fclose(rresFile)
Close ==
    /\ pc = "close"
    /\ rresFile' = "closed"
    /\ closes' = closes + 1
    /\ pc' = "return"
    /\ UNCHANGED <<env, api, rresId, fpos, fileHeader, infoHeader, i, rres, data, heap, log,
                   opens, headersRead, idCompares, shortRead>>

\* return rres
Return ==
    /\ pc = "return"
    /\ pc' = "done"
    /\ UNCHANGED <<env, api, rresId, rresFile, fpos, fileHeader, infoHeader, i, rres, data,
                   heap, log, opens, closes, headersRead, idCompares, shortRead>>

\* UnloadResource(rres) on the descriptor the call returned
UnloadResource ==
    /\ pc = "done"
    /\ heap' = IF rres.data # NULL THEN Free(heap, rres.data) ELSE heap
    /\ pc' = "unloaded"
    /\ UNCHANGED <<env, api, rresId, rresFile, fpos, fileHeader, infoHeader, i, rres, data,
                   log, opens, closes, headersRead, idCompares, shortRead>>

Next ==
    \/ CallLoadResource
    \/ CallLoadResourceById
    \/ ReadFileHeader
    \/ VerifyMagic
    \/ ReadFirstInfo
    \/ LoopStep
    \/ LoopExit
    \/ ReadDataBlock
    \/ DecompressBlock
    \/ KeepBlock
    \/ Close
    \/ Return
    \/ UnloadResource

Spec == Init /\ [][Next]_vars

\* ------------------------------------------------------------------------
\* Vocabulary of the properties
\* ------------------------------------------------------------------------
Done == pc = "done" /\ canOpen

ById == api = "LoadResourceById"

First == api = "LoadResource"

ValidMagic == Len(file) >= 4 /\ SubSeq(file, 1, 4) = RRES_MAGIC

\* The file is exactly what the entries are packaged into
Packaged == file = FileImage(RRES_MAGIC, Len(entries), entries)

UniqueIds == \A a, b \in DOMAIN entries : a # b => entries[a].id # entries[b].id

DeclaredCount == GetU16(file, 6)

\* The file has valid magic and holds in full the entries its count declares
CountedEntriesPresent ==
    /\ ValidMagic
    /\ Len(file) >= SizeofFileHeader
    /\ DeclaredCount <= Len(entries)
    /\ LET body == BodyBytes(SubSeq(entries, 1, DeclaredCount)) IN
         /\ Len(file) >= SizeofFileHeader + Len(body)
         /\ SubSeq(file, SizeofFileHeader + 1, SizeofFileHeader + Len(body)) = body

\* The file has valid magic and holds its first entry in full
FirstEntryPresent ==
    /\ ValidMagic
    /\ Len(entries) >= 1
    /\ LET e == EntryBytes(entries[1]) IN
         /\ Len(file) >= SizeofFileHeader + Len(e)
         /\ SubSeq(file, SizeofFileHeader + 1, SizeofFileHeader + Len(e)) = e

Matches == { k \in DOMAIN entries : entries[k].id = rresId }

FirstMatch == CHOOSE k \in Matches : \A m \in Matches : k <= m

\* The entry the call is to load, as a set of at most one position
Selected ==
    IF First THEN { k \in DOMAIN entries : k = 1 }
    ELSE { k \in Matches : \A m \in Matches : k <= m }

DecoderRejects(e) == TinflMemToMem(e.uncompSize, e.payload) = TINFL_FAILED

ZeroDescriptor == rres = ZeroRes

Describes(e) ==
    /\ rres.type = e.dataType
    /\ rres.param1 = e.param1
    /\ rres.param2 = e.param2
    /\ rres.param3 = e.param3
    /\ rres.param4 = e.param4

DataLive == rres.data # NULL => heap[rres.data].frees = 0

ReturnedData == BytesAt(heap, rres.data)

Logged(m) == \E k \in DOMAIN log : log[k] = m

Warnings ==
    {"could not be opened", "not a valid raylib resource file",
     "Requested resource could not be found", "Out of memory while decompressing data",
     "Data decompression failed", "Expected uncompressed size do not match"}

Warned == \E k \in DOMAIN log : log[k] \in Warnings

AllBlocksFreedOnce == \A b \in DOMAIN heap : heap[b].frees = 1

\* ------------------------------------------------------------------------
\* Properties
\* ------------------------------------------------------------------------
\* C1: a file whose first four bytes are not exactly "rRES" makes both calls
\* return the zero descriptor with the "not a valid raylib resource file"
\* warning, without reading an info header or a payload.
C1_BadMagicRejected ==
    (Done /\ Len(file) >= 4 /\ SubSeq(file, 1, 4) # RRES_MAGIC)
      => /\ ZeroDescriptor
         /\ Logged("not a valid raylib resource file")
         /\ headersRead = 0
         /\ heap = <<>>

\* C2: in a well-formed file with unique identifiers, LoadResourceById of an
\* identifier whose entry is not compressed returns that entry's type, its
\* four parameters and exactly its payload bytes, wherever the entry is.
C2_ByIdReturnsEntry ==
    (Done /\ ById /\ Packaged /\ UniqueIds)
      => \A k \in Matches :
           entries[k].compType = RRES_COMP_NONE
             => /\ Describes(entries[k])
                /\ DataLive
                /\ ReturnedData = entries[k].payload

C2_Witness ==
    /\ Done /\ ById /\ Packaged /\ UniqueIds
    /\ \E k \in Matches :
         /\ k > 1
         /\ entries[1].dataSize > 0
         /\ entries[k].compType = RRES_COMP_NONE
         /\ entries[k].dataSize > 0
         /\ rres.type = entries[k].dataType
         /\ ReturnedData = entries[k].payload

C4_FirstMatchWins ==
    (Done /\ ById /\ Packaged /\ Cardinality(Matches) > 1)
      => /\ Describes(entries[FirstMatch])
         /\ headersRead = FirstMatch
         /\ entries[FirstMatch].compType = RRES_COMP_NONE
              => ReturnedData = entries[FirstMatch].payload

\* C5: on a file with valid magic none of whose count entries has the
\* requested identifier, LoadResourceById inspects all count entries, returns
\* the zero descriptor and warns that the resource could not be found.
C5_NotFound ==
    (Done /\ ById /\ CountedEntriesPresent
       /\ \A k \in 1..DeclaredCount : entries[k].id # rresId)
      => /\ headersRead = DeclaredCount
         /\ idCompares = DeclaredCount
         /\ ZeroDescriptor
         /\ heap = <<>>
         /\ Logged("Requested resource could not be found")

C5_Witness ==
    /\ Done /\ ById /\ CountedEntriesPresent
    /\ rresId = 65537
    /\ DeclaredCount = 2
    /\ entries[2].id = 1
    /\ headersRead = 2
    /\ ZeroDescriptor
    /\ Logged("Requested resource could not be found")

\* C6: when the selected entry's compression is neither none nor deflate, the
\* call frees the raw payload, warns and returns the zero descriptor.
C6_UnsupportedCompressionFails ==
    (Done /\ Packaged)
      => \A k \in Selected :
           entries[k].compType \notin {RRES_COMP_NONE, RRES_COMP_DEFLATE}
             => /\ ZeroDescriptor
                /\ Warned
                /\ AllBlocksFreedOnce

\* C7: when the decoder rejects the selected entry's payload, the output
\* buffer is freed and the call returns the zero descriptor.
C7_DecoderFailureFails ==
    (Done /\ Packaged)
      => \A k \in Selected :
           (entries[k].compType = RRES_COMP_DEFLATE /\ DecoderRejects(entries[k]))
             => /\ ZeroDescriptor
                /\ AllBlocksFreedOnce

\* C8: when the file ends before a read completes, the call warns, frees what
\* it allocated and returns the zero descriptor.
C8_ShortReadFails ==
    (Done /\ shortRead)
      => /\ ZeroDescriptor
         /\ Warned
         /\ AllBlocksFreedOnce

\* C9: when a call has returned, the handle it opened is closed, and it was
\* closed exactly once; no call closes more handles than it opened.
C9_HandleClosedOnce ==
    /\ closes <= opens
    /\ pc \in {"done", "unloaded"} => (rresFile # "open" /\ closes = opens)

C9_Witness ==
    /\ Done
    /\ opens = 1
    /\ closes = 1
    /\ rresFile = "closed"
    /\ Logged("not a valid raylib resource file")

\* C10: when a call has returned, every block allocated during it is either
\* freed once and not referenced by the descriptor, or live and the
\* descriptor's data; releasing the descriptor then frees no block twice.
C10_BlocksOwnedOrFreed ==
    /\ pc = "done" =>
         \A b \in DOMAIN heap :
           \/ heap[b].frees = 1 /\ rres.data # b
           \/ heap[b].frees = 0 /\ rres.data = b
    /\ pc = "unloaded" => \A b \in DOMAIN heap : heap[b].frees = 1

====
